---- MODULE Spec2Model ----
(***************************************************************************)
(* Session identity reconciliation and streaming-response pipeline of the  *)
(* chat client: the useSession hook (hooks/useSession), the session API    *)
(* (lib/api), the chat page (app/chat/page.tsx) and the chat panel         *)
(* (components/ChatPanel, handleSendMessage and its effects).              *)
(*                                                                         *)
(* React is modelled as follows.  A handler, a timer callback or the       *)
(* continuation of an await runs atomically; the state updates it makes    *)
(* are committed, and the effects whose dependencies changed then run in   *)
(* declaration order, each reading the values of the render it belongs to  *)
(* (state, props) and the live values of refs, localStorage and module     *)
(* globals.  Updates made by effects cause further renders until nothing   *)
(* changes (Commit).  The continuation of an await keeps the values its    *)
(* handler captured when it was called.                                    *)
(***************************************************************************)
EXTENDS Integers, Sequences, FiniteSets, TLC

\* ----------------------------------------------------------------- bounds
NumInstances == 2      \* mounted useSession instances of the guard harness
MaxCalls == 2          \* creation requests after which the retry timer is no longer followed
MaxSends == 1          \* messages sent in one run of the app
MaxFirstSends == 2     \* messages sent in one run of the first conversation
MaxInvocations == 2    \* createSession() calls components make in one run of the harness
MaxTranscript == 4     \* transcript length up to which a completed conversation is written to
MaxClicks == 1         \* sidebar / edit / new-conversation actions in one run
MaxFrames == 3         \* lines of one chat response

\* ------------------------------------------------------------ JS values
Null == "null"
Undef == "undefined"
Empty == ""
Truthy(x) == x \notin {Null, Undef, Empty}
Or(a, b) == IF Truthy(a) THEN a ELSE b
NoIndex == 0 - 1                     \* editMessageIndex when it is null

Instances == 1..NumInstances
Users == {"A"}                      \* identities that log in on this browser
OtherUser == "B"                    \* owner of a record left in the store
OwnSid == "s1"                      \* a past conversation of user A
ForeignSid == "sx"                  \* a session of OtherUser
\* ids the backend issues, by request
NewSids == <<"n1", "n2", "n3", "n4", "n5", "n6", "n7", "n8", "n9", "n10", "n11", "n12">>

VARIABLES
  auth,        \* AuthContext: [isLoading, user]
  ls,          \* localStorage: chat_session, chat_session_creation_blocked, chat_session_error, user
  globalSessionCreationInProgress,
  hooks,       \* useSession instances: sessionState, refs, timer, pending creation
  page,        \* ChatPage state
  panel,       \* ChatPanel state and refs
  send,        \* the running handleSendMessage call
  net,         \* requests and timers in flight
  log          \* what has been requested from the backend, and counters

vars == <<auth, ls, globalSessionCreationInProgress, hooks, page, panel, send, net, log>>

IsAuth(w) == w.auth.user # Null

\* ------------------------------------------------------- session store
\* the value under chat_session: absent, text that does not parse, or a record
NoRecord == [kind |-> "absent", sessionId |-> Undef, userId |-> Undef, isAuthenticated |-> FALSE]
Malformed == [kind |-> "malformed", sessionId |-> Undef, userId |-> Undef, isAuthenticated |-> FALSE]
Rec(sid, uid, isAuth) ==
  [kind |-> "record", sessionId |-> sid, userId |-> uid, isAuthenticated |-> isAuth]
IsRec(r) == r.kind = "record"
\* JSON.parse(stored).sessionId where the record parses, else nothing
StoredSid(r) == IF IsRec(r) THEN r.sessionId ELSE Undef

\* ------------------------------------------------- useSession: state
\* useSession.getInitialSession: the initial sessionState and the store it leaves
getInitialSession(prop, w) ==
  LET stored == w.ls.chat_session
      none == [sessionId |-> Null, isAuthenticated |-> IsAuth(w), isLoading |-> TRUE]
  IN
  IF Truthy(prop)
    THEN [st |-> [sessionId |-> prop, isAuthenticated |-> IsAuth(w), isLoading |-> FALSE], ls |-> w.ls]
  ELSE IF ~IsAuth(w)
    THEN [st |-> [sessionId |-> Null, isAuthenticated |-> FALSE, isLoading |-> FALSE], ls |-> w.ls]
  ELSE IF stored = Malformed
    THEN [st |-> none, ls |-> [w.ls EXCEPT !.chat_session = NoRecord]]
  ELSE IF IsRec(stored) /\ Truthy(stored.sessionId)
    THEN IF w.ls.user # Null /\ Truthy(stored.userId) /\ stored.userId # w.ls.user
           THEN [st |-> [sessionId |-> Empty, isAuthenticated |-> FALSE, isLoading |-> FALSE],
                 ls |-> [w.ls EXCEPT !.chat_session = NoRecord]]
           ELSE [st |-> [sessionId |-> stored.sessionId,
                         isAuthenticated |-> (stored.isAuthenticated = TRUE),
                         isLoading |-> FALSE],
                 ls |-> w.ls]
  ELSE [st |-> none, ls |-> w.ls]

\* the sessionId prop of the hook: ChatPanel passes its _sessionId, the page's currentSessionId
Prop(w) == w.page.currentSessionId

\* useSession, effect "Update state when props change"
PropsEffect(cur, nxt) ==
  [nxt EXCEPT !.hook.sessionId = IF Truthy(Prop(cur)) THEN Prop(cur) ELSE Null,
              !.hook.isAuthenticated = IsAuth(cur),
              !.hook.isLoading = ~Truthy(Prop(cur)) /\ cur.auth.isLoading]
PropsDeps(w) == <<Prop(w), IsAuth(w), w.auth.isLoading>>

\* useSession, checkInitialSession (and handleStorageChange, which has the same body)
checkInitialSession(cur, nxt) ==
  LET stored == nxt.ls.chat_session IN
  IF IsRec(stored) /\ Truthy(stored.sessionId) /\ stored.sessionId # cur.hook.sessionId
    THEN [nxt EXCEPT !.hook.sessionId = stored.sessionId,
                     !.hook.isAuthenticated = (stored.isAuthenticated = TRUE) \/ nxt.hook.isAuthenticated,
                     !.hook.isLoading = FALSE]
    ELSE nxt
ListenDeps(w) == <<w.hook.sessionId, w.hook.isAuthenticated>>

\* the auto-create effect's "Check if session creation was blocked"
CreationBlockedBroken(store) == FALSE
CreationBlocked(store) == store.blocked

\* useSession, effect "Auto-create session if none provided and auth is ready":
\* TRUE when the effect arms the 1.5 s timer that calls createSession
shouldCreateSession(cur, nxt) ==
  LET stored == nxt.ls.chat_session
      blocked == CreationBlocked(nxt.ls)
      hasValidLocalStorageSession == IsRec(stored) /\ Truthy(stored.sessionId)
  IN /\ ~Truthy(Prop(cur))
     /\ ~Truthy(cur.hook.sessionId)
     /\ IsAuth(cur)
     /\ ~cur.auth.isLoading
     /\ ~cur.hook.isLoading
     /\ ~nxt.hook.inProgress
     /\ ~nxt.g
     /\ ~hasValidLocalStorageSession
     /\ ~blocked
AutoCreateEffect(cur, nxt) == [nxt EXCEPT !.hook.timer = shouldCreateSession(cur, nxt)]
AutoCreateDeps(w) == <<Prop(w), w.auth.isLoading, w.hook.isLoading, w.hook.sessionId, IsAuth(w)>>

\* the effects of one useSession instance after a render, in declaration order
PropsStep(run, cur, nxt) == IF run THEN PropsEffect(cur, nxt) ELSE nxt
ListenStep(run, cur, nxt) == IF run THEN checkInitialSession(cur, nxt) ELSE nxt
AutoCreateStep(run, cur, nxt) == IF run THEN AutoCreateEffect(cur, nxt) ELSE nxt
UseSessionEffects(prev, cur, nxt, mount) ==
  AutoCreateStep(mount \/ AutoCreateDeps(prev) # AutoCreateDeps(cur), cur,
    ListenStep(mount \/ ListenDeps(prev) # ListenDeps(cur), cur,
      PropsStep(mount \/ PropsDeps(prev) # PropsDeps(cur), cur, nxt)))

\* ----------------------------------------------- useSession.createSession
\* the guard on the two creation-in-progress flags
CreationGuardBroken(w) == w.hook.inProgress
CreationGuard(w) == w.hook.inProgress \/ w.g

\* createSession up to its first await.  prop, sid and isAuth are the values the
\* callback captured.  Sets the flags and starts sessionApi.getOrCreateSession (which
\* first awaits getUserHeaders), or returns.
createSessionSync(w, prop, sid, isAuth) ==
  IF Truthy(prop) \/ Truthy(sid) \/ CreationGuard(w)
    THEN w
  ELSE IF ~isAuth
    THEN [w EXCEPT !.hook.isLoading = FALSE]          \* finally: both flags false again
  ELSE [w EXCEPT !.hook.inProgress = TRUE, !.g = TRUE, !.hook.isLoading = TRUE,
                 !.hook.call = "headers"]

\* createSession, finally block: both creation-in-progress flags are cleared
FinallyBroken(w) == [w EXCEPT !.hook.inProgress = FALSE]
Finally(w) == [w EXCEPT !.hook.inProgress = FALSE, !.g = FALSE]

\* sessionApi.getOrCreateSession: "Ensure we have a user ID"
HasUserId(w) == w.auth.user # Null

\* getUserHeaders has resolved: POST api/v1/session, or throw 'User not authenticated'
\* (caught by createSession: status 0, nothing stored; finally clears the flags)
getOrCreateSession(w) ==
  IF HasUserId(w)
    THEN [w EXCEPT !.hook.call = "posted", !.hook.callUser = w.auth.user, !.hook.posts = 1]
    ELSE Finally([w EXCEPT !.hook.call = "none", !.hook.isLoading = FALSE])

\* answers to POST api/v1/session: a session, a body without session, status 500/503,
\* status 400, status 404 with detail "User not found", status 404 with another JSON
\* body, no response
Outcomes == {"ok", "invalid", "e500", "e400", "e404user", "e404", "efail"}

\* the record createSession persists under chat_session on success
SessionRecordBroken(sid, uid) == NoRecord
SessionRecord(sid, uid) == Rec(sid, uid, TRUE)

\* createSession after the await: the response or the error of the creation call
createSessionDone(w, outcome, sid) ==
  LET fin == Finally([w EXCEPT !.hook.call = "none", !.hook.isLoading = FALSE,
                               !.hook.posts = 0, !.hook.syncs = 0])
  IN CASE outcome = "ok" ->
            [fin EXCEPT !.ls.blocked = FALSE,
                        !.hook.sessionId = sid,
                        !.hook.isAuthenticated = TRUE,
                        !.ls.chat_session = SessionRecord(sid, w.hook.callUser),
                        !.log.issued = @ \cup {sid}]
       [] outcome = "invalid" -> [fin EXCEPT !.ls.blocked = FALSE]
       [] outcome = "e500" -> [fin EXCEPT !.ls.blocked = TRUE, !.ls.error = "500"]
       [] outcome \in {"e400", "e404"} -> [fin EXCEPT !.ls.blocked = TRUE]
       [] OTHER -> fin

\* sessionApi.getOrCreateSession, catch: the corrective action is inside the catch of
\* the first request, so only that request's 404 "User not found" leads to it
SyncOnceBroken(h) == TRUE
SyncOnce(h) == h.call = "posted"

\* what createSession sees of a failed corrective action: the original 404 is thrown
Thrown404(w) == createSessionDone(w, "e400", Undef)

\* sessionApi.getOrCreateSession, "Other 404 error": the first request's 404 without
\* "User not found" is returned to createSession as {success: false}
Other404(outcome) ==
  CASE outcome = "e404user" -> "e400"
    [] outcome = "e404" -> "invalid"
    [] OTHER -> outcome

\* sessionApi.getOrCreateSession after its request has ended: status 404 with
\* "User not found" starts sessionApi.createUser when Supabase has a session; the
\* answer to the retry is returned and its error is replaced by the original one
creationEnded(w, outcome, sid) ==
  IF outcome = "e404user" /\ SyncOnce(w.hook)
    THEN IF HasUserId(w)
           THEN [w EXCEPT !.hook.call = "syncing", !.hook.syncs = @ + 1]
           ELSE Thrown404(w)
  ELSE IF w.hook.call = "reposted" /\ outcome \notin {"ok", "invalid"}
    THEN Thrown404(w)
  ELSE createSessionDone(w, Other404(outcome), sid)

\* sessionApi.createUser has ended: the creation request is sent once more (a 409
\* counts as success), or the original error is thrown
SyncOutcomes == {"ok", "fail"}
userSynced(w, outcome) ==
  IF outcome = "ok"
    THEN [w EXCEPT !.hook.call = "reposted", !.hook.posts = @ + 1,
                   !.log.createCalls = @ + 1]
    ELSE Thrown404(w)

\* ----------------------------------------------------------- transcript
Text(s) == <<s>>                     \* a fixed text, kept as one token
WelcomeText == Text("Hey! I'm your content creation assistant!")
FallbackText == Text("I'm sorry, I didn't receive a proper response. Please try again.")
ErrorText == Text("I'm sorry, I encountered an error.")
PromptText == Text("Your content is ready!")
UserTexts == <<"u1", "u2", "u3">>    \* what the user types, by send
Msg(role, content, id) == [role |-> role, content |-> content, messageId |-> id]
Welcome == <<Msg("assistant", WelcomeText, Undef)>>
\* what the backend returns for the messages of a past conversation
History == <<Msg("user", Text("h1"), "m1"), Msg("assistant", Text("h2"), "m2")>>
SetLast(msgs, m) == [msgs EXCEPT ![Len(msgs)] = m]

\* --------------------------------------------------- ChatPanel: effects
\* ChatPanel, effect "Sync local state with props when they change"
SyncPropsEffect(cur, nxt) ==
  IF Truthy(Prop(cur)) /\ Prop(cur) # cur.panel.currentSessionId
    THEN [nxt EXCEPT !.panel.currentSessionId = Prop(cur), !.panel.sessionIdRef = Prop(cur)]
    ELSE nxt

\* ChatPanel.checkLocalStorageSession; onSessionUpdate is the page's setCurrentSessionId
checkLocalStorageSession(cur, nxt) ==
  LET stored == nxt.ls.chat_session IN
  IF IsRec(stored) /\ Truthy(stored.sessionId) /\ ~Truthy(Prop(cur))
    THEN [nxt EXCEPT !.panel.currentSessionId = stored.sessionId,
                     !.panel.sessionIdRef = stored.sessionId,
                     !.page.currentSessionId = stored.sessionId]
    ELSE nxt

\* ChatPanel.loadSessionMessages up to its first await
loadSessionMessages(cur, nxt) ==
  LET sessionIdToUse ==
        Or(Prop(cur), Or(cur.hook.sessionId,
           Or(cur.panel.currentSessionId, StoredSid(nxt.ls.chat_session))))
      currentSessionIdValue == IF Truthy(sessionIdToUse) THEN sessionIdToUse ELSE Undef
      finalSessionId == Or(sessionIdToUse, cur.panel.currentSessionId)
  IN
  IF currentSessionIdValue = nxt.panel.prevSessionIdRef
    THEN nxt
  ELSE IF Prop(cur) = Empty
    THEN [nxt EXCEPT !.panel.messages = Welcome,
                     !.panel.currentSessionId = Undef,
                     !.panel.prevSessionIdRef = Undef]
  ELSE IF IsAuth(cur) /\ ~Truthy(sessionIdToUse)
    THEN \* most-recent-session lookup: sessionApi.getSessions(1)
         [nxt EXCEPT !.panel.prevSessionIdRef = currentSessionIdValue,
                     !.panel.currentSessionId = currentSessionIdValue,
                     !.net.lookup = TRUE]
  ELSE IF ~Truthy(finalSessionId)
    THEN [nxt EXCEPT !.panel.prevSessionIdRef = currentSessionIdValue,
                     !.panel.currentSessionId = currentSessionIdValue]
  ELSE [nxt EXCEPT !.panel.prevSessionIdRef = currentSessionIdValue,
                   !.panel.currentSessionId = currentSessionIdValue,
                   !.net.fetches = @ \cup {finalSessionId}]
LoadDeps(w) == <<Prop(w), w.auth.user, w.panel.currentSessionId, w.hook.sessionId>>

\* ChatPanel, effect "Sync hook session values with local state"
HookSyncEffect(cur, nxt) ==
  IF Truthy(cur.hook.sessionId)
    THEN [nxt EXCEPT !.panel.currentSessionId = cur.hook.sessionId,
                     !.panel.sessionIdRef = cur.hook.sessionId]
    ELSE nxt

\* the page re-rendered, so ChatPanel received a new onSessionUpdate callback
ParentRendered(prev, cur) == prev.page # cur.page \/ prev.auth # cur.auth

\* the effects of one render of ChatPanel (useSession's first), in declaration order
SyncPropsStep(run, cur, nxt) == IF run THEN SyncPropsEffect(cur, nxt) ELSE nxt
CheckStoreStep(run, cur, nxt) == IF run THEN checkLocalStorageSession(cur, nxt) ELSE nxt
LoadStep(run, cur, nxt) == IF run THEN loadSessionMessages(cur, nxt) ELSE nxt
HookSyncStep(run, cur, nxt) == IF run THEN HookSyncEffect(cur, nxt) ELSE nxt
RunEffects(prev, cur, mount) ==
  HookSyncStep(mount \/ prev.hook.sessionId # cur.hook.sessionId, cur,
    LoadStep(mount \/ LoadDeps(prev) # LoadDeps(cur), cur,
      CheckStoreStep(mount \/ ParentRendered(prev, cur), cur,
        SyncPropsStep(mount \/ Prop(prev) # Prop(cur), cur,
          UseSessionEffects(prev, cur, cur, mount)))))

\* what a render shows: React state, not refs, storage or requests
Rendered(w) ==
  <<w.auth, w.page, w.hook.sessionId, w.hook.isAuthenticated, w.hook.isLoading,
    w.panel.currentSessionId, w.panel.messages>>

MaxRenders == 6        \* renders one update may cascade into

\* commit the update that took render prev to cur: run effects until nothing changes
RECURSIVE CommitN(_, _, _)
Settle(cur, nxt, fuel) ==
  IF Rendered(nxt) = Rendered(cur) THEN nxt
  ELSE IF fuel = 0 THEN [nxt EXCEPT !.log.overflow = TRUE]
  ELSE CommitN(cur, nxt, fuel - 1)
CommitN(prev, cur, fuel) == Settle(cur, RunEffects(prev, cur, FALSE), fuel)
Commit(prev, cur) == CommitN(prev, cur, MaxRenders)

\* the effects of a render of a lone useSession instance (no ChatPanel around it)
RECURSIVE HookCommitN(_, _, _)
HookSettle(cur, nxt, fuel) ==
  IF Rendered(nxt) = Rendered(cur) THEN nxt
  ELSE IF fuel = 0 THEN [nxt EXCEPT !.log.overflow = TRUE]
  ELSE HookCommitN(cur, nxt, fuel - 1)
HookCommitN(prev, cur, fuel) == HookSettle(cur, UseSessionEffects(prev, cur, cur, FALSE), fuel)
HookCommit(prev, cur) == HookCommitN(prev, cur, MaxRenders)

\* ------------------------------------------------------------ the world
World(i) ==
  [auth |-> auth, ls |-> ls, g |-> globalSessionCreationInProgress, hook |-> hooks[i],
   page |-> page, panel |-> panel, send |-> send, net |-> net, log |-> log]
Put(i, w) ==
  /\ auth' = w.auth
  /\ ls' = w.ls
  /\ globalSessionCreationInProgress' = w.g
  /\ hooks' = [hooks EXCEPT ![i] = w.hook]
  /\ page' = w.page
  /\ panel' = w.panel
  /\ send' = w.send
  /\ net' = w.net
  /\ log' = w.log

HookOf(st) ==
  [sessionId |-> st.sessionId, isAuthenticated |-> st.isAuthenticated, isLoading |-> st.isLoading,
   inProgress |-> FALSE, timer |-> FALSE, call |-> "none", callUser |-> Null,
   posts |-> 0, syncs |-> 0]
Panel0 ==
  [messages |-> Welcome, isLoading |-> FALSE, isProcessingMessage |-> FALSE,
   storyCompleted |-> FALSE, showCompletion |-> FALSE,
   isEditing |-> FALSE, editMessageIndex |-> NoIndex, editMessageId |-> Null,
   currentSessionId |-> Undef, prevSessionIdRef |-> Undef, sessionIdRef |-> Undef,
   isNewSessionRef |-> FALSE]
Send0 ==
  [phase |-> "idle", text |-> Empty, awaiting |-> FALSE, sessionId |-> Undef,
   cProp |-> Empty, cSid |-> Undef, cHook |-> Null, cEditing |-> FALSE, cEditId |-> Null,
   abortArmed |-> FALSE, aborted |-> FALSE, stream |-> <<>>, pos |-> 0,
   acc |-> <<>>]
\* what handleAudioData's 100 ms timer holds: the onSend of the render it was created in
NoAudio ==
  [armed |-> FALSE, used |-> 0, user |-> Null, prop |-> Empty, hookSid |-> Null, panel |-> Panel0]
\* ChatPage.initializeSession: hasRestoredSessionRef and the calls that are in their
\* retry loop (attempt is the loop variable, calls counts sessionApi.getSessions(1))
MaxRuns == 2           \* initializeSession calls that may overlap
Runs == 1..MaxRuns
Run0 ==
  [phase |-> "idle", attempt |-> 0, calls |-> 0, lastError |-> FALSE, ok |-> FALSE,
   result |-> "none", user |-> Null]
Restore0 == [done |-> FALSE, runs |-> [r \in Runs |-> Run0]]
Net0 ==
  [fetches |-> {}, lookup |-> FALSE, evTimers |-> <<>>, prompts |-> 0,
   verify |-> {},          \* the 100 ms timers of useSession.handleSessionUpdate
   audio |-> NoAudio,      \* the delayed audio-transcript send
   second |-> Send0,       \* the handleSendMessage call that send started
   restore |-> Restore0,   \* the page's session restoration
   authCall |-> "none"]    \* the login() or logout() call that is awaiting its request
Log0 ==
  [createCalls |-> 0,     \* POST api/v1/session requests issued
   chat |-> <<>>,          \* POST /api/chat requests issued, in order
   sends |-> 0, clicks |-> 0,
   guarded |-> 0,          \* createSession calls the in-progress guard turned away
   refused |-> FALSE,      \* getOrCreateSession has thrown 'User not authenticated'
   resync |-> FALSE,       \* sessionSyncManager.forceSync() has been called
   issued |-> {},          \* session ids that successful creations returned
   published |-> {},       \* session ids that 'sessionCreated' events carried
   updated |-> {},         \* session ids that 'sessionUpdated' events carried
   retired |-> {},         \* session ids that were active when a new conversation was asked for
   rejected |-> {},        \* session ids whose messages were refused with 403/404, until selected again
   committed |-> Undef,    \* the session id of the conversation's last metadata frame
   overflow |-> FALSE]

\* --------------------------------------------------------- chat stream
Line(type, content, done, sid) == [type |-> type, content |-> content, done |-> done, session_id |-> sid]
Content(t, d) == Line("content", t, d, Undef)
Metadata(sid) == Line("metadata", <<>>, FALSE, sid)
NoPrefix == Line("noprefix", <<>>, FALSE, Undef)     \* a line that does not start with "data: "
BadJson == Line("badjson", <<>>, FALSE, Undef)       \* "data: " followed by text JSON.parse rejects
CompletionPhrase == "the end"
FrameTexts == {<<>>, <<"a">>, <<" ">>, <<"b">>}
ContentLines == {Content(t, d) : t \in FrameTexts, d \in BOOLEAN}
Lines == ContentLines \cup {Metadata(OwnSid), Metadata(NewSids[1]), Metadata(Undef), NoPrefix, BadJson}
SeqsUpTo(S, n) == UNION {[1..k -> S] : k \in 0..n}

\* assistantContent.trim() === ''
IsBlank(t) == \A i \in 1..Len(t) : t[i] = " "
\* the completion heuristics: the lower-cased content includes one of the phrases
IsCompleted(t) == \E i \in 1..Len(t) : t[i] = CompletionPhrase

\* ChatPanel.handleEditComplete
handleEditComplete(w) ==
  [w EXCEPT !.panel.isEditing = FALSE, !.panel.editMessageIndex = NoIndex, !.panel.editMessageId = Null]

\* handleSendMessage, finally block
SendFinally(w) ==
  LET f == [w EXCEPT !.panel.isLoading = FALSE, !.panel.isProcessingMessage = FALSE, !.send = Send0]
  IN IF w.send.cEditing THEN handleEditComplete(f) ELSE f

\* handleSendMessage, catch block: the last message becomes the error message
SendFailedBroken(w) == SendFinally([w EXCEPT !.panel.isNewSessionRef = FALSE])
SendFailed(w) ==
  SendFinally([w EXCEPT !.panel.isNewSessionRef = FALSE,
                        !.panel.messages = SetLast(@, Msg("assistant", ErrorText, Undef))])

\* handleSendMessage after the read loop: "if (assistantContent.trim() === '')"
EmptyResponseBroken(acc) == acc = <<>>
EmptyResponse(acc) == IsBlank(acc)

\* handleSendMessage after the read loop: completion detection, empty-stream fallback
SendCompleted(w) ==
  LET acc == w.send.acc
      a == IF IsCompleted(acc)
             THEN [w EXCEPT !.panel.showCompletion = TRUE, !.panel.storyCompleted = TRUE]
             ELSE w
      b == IF EmptyResponse(acc)
             THEN [a EXCEPT !.panel.messages = SetLast(@, Msg("assistant", FallbackText, Undef))]
             ELSE a
  IN SendFinally(IF w.panel.isNewSessionRef
                   THEN [b EXCEPT !.panel.isNewSessionRef = FALSE,
                                  !.log.published = @ \cup {w.panel.sessionIdRef}]
                   ELSE b)

\* the read loop's handling of a content frame: accumulate, replace the last message
ContentFrameBroken(w, line) ==
  [w EXCEPT !.send.acc = line.content,
            !.panel.messages = SetLast(@, Msg("assistant", line.content, Undef))]
ContentFrame(w, line) ==
  LET acc == w.send.acc \o line.content IN
  [w EXCEPT !.send.acc = acc,
            !.panel.messages = SetLast(@, Msg("assistant", acc, Undef))]

\* the read loop's handling of a metadata frame: commit the session id, persist it,
\* arm the 200 ms timer that publishes it
MetadataFrame(w, line) ==
  IF Truthy(line.session_id)
    THEN [w EXCEPT !.panel.currentSessionId = line.session_id,
                   !.panel.sessionIdRef = line.session_id,
                   !.ls.chat_session = Rec(line.session_id, Undef, TRUE),
                   !.net.evTimers = Append(@, line.session_id),
                   !.log.committed = line.session_id]
    ELSE w

\* a line that does not start with "data: " is skipped; JSON.parse throws on a
\* malformed frame and the empty catch swallows it
DropLineBroken(w) == SendFailed(w)
DropLine(w) == w

\* one line of a chunk; a done:true content frame ends the loop
HandleLine(w, line) ==
  LET r == [w EXCEPT !.send.pos = @ + 1] IN
  CASE line.type = "content" ->
         IF line.done THEN SendCompleted(ContentFrame(r, line)) ELSE ContentFrame(r, line)
    [] line.type = "metadata" -> MetadataFrame(r, line)
    [] OTHER -> DropLine(r)

\* ------------------------------------------- ChatPanel.handleSendMessage
\* the chat request: fetch('/api/chat') with session_id and edit_from_message_id
IssueChat(w, sid) ==
  IF w.send.aborted
    THEN SendFailed(w)
    ELSE [w EXCEPT !.send.phase = "fetching", !.send.sessionId = sid,
                   !.log.chat = Append(@, [sid |-> sid,
                       edit |-> IF w.send.cEditing /\ Truthy(w.send.cEditId) THEN w.send.cEditId ELSE Undef,
                       prop |-> w.send.cProp,
                       fresh |-> w.panel.isNewSessionRef,
                       reused |-> sid \in w.log.retired])]

\* the transcript when sending starts: an edit truncates before the edited message
\* (Array.prototype.slice stops at the end of the array)
Min(a, b) == IF a < b THEN a ELSE b
EditKeepBroken(msgs, idx) == SubSeq(msgs, 1, Min(idx + 1, Len(msgs)))
EditKeep(msgs, idx) == SubSeq(msgs, 1, Min(idx, Len(msgs)))
\* (an edit slices the `messages` of the handler's render c; the other updates are
\* functional and apply to the live list)
StartTranscript(c, live, text) ==
  LET userMessage == Msg("user", Text(text), Undef)
      kept == IF c.isEditing /\ c.editMessageIndex # NoIndex
                THEN EditKeep(c.messages, c.editMessageIndex)
                ELSE live.messages
  IN kept \o <<userMessage, Msg("assistant", <<>>, Undef)>>

\* `await createSession()`, then the 500 ms wait; the call is awaited when this
\* invocation got past the guards (w is the state before it, c the state after)
AwaitCreate(w, c) ==
  [c EXCEPT !.send.phase = "wait",
            !.send.awaiting = (w.hook.call = "none" /\ c.hook.call = "headers")]

\* handleSendMessage, "Check if content is completed"
CompletionGateBroken(p) == FALSE
CompletionGate(p) == p.storyCompleted

\* handleSendMessage up to its first await.  c is the render the handler belongs to
\* (it reads state, props and the hook's values from it), w the live state it updates
\* and whose refs it reads
handleSendMessageOf(c, w, text) ==
  LET p == c.panel
      sessionId == Or(Prop(c), Or(p.currentSessionId, Or(c.hook.sessionId, w.panel.sessionIdRef)))
  IN
  IF p.isLoading THEN w
  ELSE IF CompletionGate(p)
    THEN [w EXCEPT !.panel.messages = Append(@, Msg("user", Text(text), Undef)),
                   !.net.prompts = @ + 1]
  ELSE IF ~IsAuth(c)
    THEN [w EXCEPT !.panel.isProcessingMessage = TRUE]
  ELSE
    LET s == [w EXCEPT !.panel.isProcessingMessage = TRUE,
                       !.panel.isLoading = TRUE,
                       !.panel.messages = StartTranscript(p, w.panel, text),
                       !.send = [Send0 EXCEPT !.text = text, !.abortArmed = TRUE,
                                              !.cProp = Prop(c), !.cSid = p.currentSessionId,
                                              !.cHook = c.hook.sessionId,
                                              !.cEditing = p.isEditing,
                                              !.cEditId = p.editMessageId]]
    IN IF Truthy(sessionId)
         THEN IssueChat(s, sessionId)
         ELSE AwaitCreate(w, createSessionSync([s EXCEPT !.panel.isNewSessionRef = TRUE],
                                               Prop(c), c.hook.sessionId, IsAuth(c)))
\* the handler of the current render
handleSendMessage(w, text) == handleSendMessageOf(w, w, text)

\* Composer.handleSend: onSend, then onEditComplete when the composer is in edit mode
EditDone(isEditing, w) == IF isEditing THEN handleEditComplete(w) ELSE w
ComposerSend(w, text) == EditDone(w.panel.isEditing, handleSendMessage(w, text))

\* handleSendMessage after `await createSession()` and the 500 ms wait
SendAfterCreate(w) ==
  LET stored == w.ls.chat_session
      first == Or(w.send.cHook, Or(w.panel.sessionIdRef, w.send.cSid))
  IN IF Truthy(first) THEN IssueChat(w, first)
     ELSE IF IsRec(stored) /\ Truthy(stored.sessionId)
       THEN IssueChat([w EXCEPT !.panel.sessionIdRef = stored.sessionId,
                                !.panel.currentSessionId = stored.sessionId], stored.sessionId)
     ELSE SendFailed(w)

\* ------------------------------------------------------------- mounting
Mount(raw) == Settle(raw, RunEffects(raw, raw, TRUE), MaxRenders)
HookMount(raw) == HookSettle(raw, UseSessionEffects(raw, raw, raw, TRUE), MaxRenders)

\* the page as it is first rendered: currentSessionId is '', ChatPanel and its
\* useSession take their initial state from the props, the auth context and the store
FirstRender(a, store) ==
  LET ls0 == [chat_session |-> store, blocked |-> FALSE, error |-> Null, user |-> a.user]
      gi == getInitialSession(Empty, [auth |-> a, ls |-> ls0])
  IN [auth |-> a, ls |-> gi.ls, g |-> FALSE, hook |-> HookOf(gi.st),
      page |-> [currentSessionId |-> Empty], panel |-> Panel0,
      send |-> Send0, net |-> Net0, log |-> Log0]

\* auth context when the page mounts: still loading (page load), or already
\* settled (navigation inside the app), signed in or not
AuthInits == {[isLoading |-> TRUE, user |-> Null]} \cup
             {[isLoading |-> FALSE, user |-> u] : u \in Users \cup {Null}}
\* what an earlier visit may have left under chat_session
InitStores == {NoRecord, Rec(OwnSid, "A", TRUE), Rec(ForeignSid, OtherUser, TRUE)}

Unmounted == HookOf([sessionId |-> Null, isAuthenticated |-> FALSE, isLoading |-> FALSE])

InitFrom(w, hs) ==
  /\ auth = w.auth
  /\ ls = w.ls
  /\ globalSessionCreationInProgress = w.g
  /\ hooks = hs
  /\ page = w.page
  /\ panel = w.panel
  /\ send = w.send
  /\ net = w.net
  /\ log = w.log

\* the app mounts one instance, ChatPanel's
AppInit(w) == InitFrom(w, [i \in Instances |-> IF i = 1 THEN w.hook ELSE Unmounted])
Init == \E a \in AuthInits, store \in InitStores : AppInit(Mount(FirstRender(a, store)))

\* ------------------------------------------------------ actions: auth
\* AuthProvider: the initial check settles (setUser, setIsLoading(false)); the
\* provider's effect mirrors the user under localStorage 'user'
AuthLoaded ==
  \E u \in Users \cup {Null} :
    /\ auth.isLoading
    /\ LET w == World(1) IN
       Put(1, Commit(w, [w EXCEPT !.auth = [isLoading |-> FALSE, user |-> u], !.ls.user = u]))

\* the session ends (SIGNED_OUT, or a 401 on token validation): setUser(null)
SignedOut ==
  /\ auth.user # Null
  /\ LET w == World(1) IN
     Put(1, Commit(w, [w EXCEPT !.auth.user = Null, !.ls.user = Null]))

\* ------------------------------------------------------ actions: page
Click(w) == [w EXCEPT !.log.clicks = @ + 1]

\* ChatPage.handleSessionSelect: a past conversation is clicked in the sidebar
handleSessionSelect(w, sid) ==
  [w EXCEPT !.page.currentSessionId = sid, !.log.rejected = @ \ {sid}, !.log.committed = Undef]
SelectSessionUpTo(n) ==
  /\ auth.user # Null /\ log.clicks < n
  /\ LET w == World(1) IN Put(1, Commit(w, Click(handleSessionSelect(w, OwnSid))))
SelectSession == SelectSessionUpTo(MaxClicks)

\* ChatPage.handleNewStoryClick: the sidebar's new-chat button
handleNewStoryClick(w) ==
  [w EXCEPT !.ls.chat_session = NoRecord, !.page.currentSessionId = Empty, !.log.committed = Undef]
Active(w) ==
  {x \in {w.page.currentSessionId, w.panel.currentSessionId, w.panel.sessionIdRef,
          w.hook.sessionId} : Truthy(x)}
Retire(w, c) == [c EXCEPT !.log.retired = @ \cup Active(w)]
NewStoryClickUpTo(n) ==
  /\ auth.user # Null /\ log.clicks < n
  /\ LET w == World(1) IN Put(1, Commit(w, Retire(w, Click(handleNewStoryClick(w)))))
NewStoryClick == NewStoryClickUpTo(MaxClicks)

\* ----------------------------------------------------- actions: panel
\* ChatPanel.handleNewStory (the completion modal's button)
handleNewStory(w) ==
  LET r == [w EXCEPT !.panel.storyCompleted = FALSE, !.panel.showCompletion = FALSE] IN
  IF IsAuth(w)
    THEN [r EXCEPT !.ls.chat_session = NoRecord,
                   !.panel.currentSessionId = Empty,
                   !.panel.sessionIdRef = Empty,
                   !.panel.isNewSessionRef = FALSE,
                   !.panel.messages = Welcome,
                   !.log.committed = Undef]
    ELSE r
NewStory ==
  /\ panel.showCompletion
  /\ LET w == World(1) IN Put(1, Commit(w, handleNewStory(w)))

\* ChatPanel.handleEditMessage: the edit button of the user message at index i (from 0)
handleEditMessage(w, i) ==
  IF i < 0 \/ i >= Len(w.panel.messages) THEN w
  ELSE [w EXCEPT !.panel.isEditing = TRUE,
                 !.panel.editMessageIndex = i,
                 !.panel.editMessageId = Or(w.panel.messages[i + 1].messageId, Null)]
EditMessageUpTo(n) ==
  \E i \in 0..(Len(panel.messages) - 1) :
    /\ panel.messages[i + 1].role = "user"
    /\ ~panel.isEditing /\ log.clicks < n
    /\ LET w == World(1) IN Put(1, Commit(w, Click(handleEditMessage(w, i))))
EditMessage == EditMessageUpTo(MaxClicks)

\* the composer sends: disabled while isLoading or isProcessingMessage
\* (log.sends counts the sends made while the conversation is open; the sends a
\* completed conversation intercepts are bounded by the length of the transcript)
Counted(w) == [w EXCEPT !.log.sends = @ + (IF w.panel.storyCompleted THEN 0 ELSE 1)]
Sent(w) == Commit(w, ComposerSend(Counted(w), UserTexts[w.log.sends + 1]))
SendUpTo(n) ==
  /\ IF panel.storyCompleted THEN Len(panel.messages) < MaxTranscript ELSE log.sends < n
  /\ ~(panel.isLoading \/ panel.isProcessingMessage)
  /\ Put(1, Sent(World(1)))
Send == SendUpTo(MaxSends)

\* --------------------------------------------- actions: session creation
\* the auto-create effect's 1.5 s timer calls createSession
TimerFires(i, w) ==
  createSessionSync([w EXCEPT !.hook.timer = FALSE], Prop(w), w.hook.sessionId, IsAuth(w))
AfterTimer(w) == Commit(w, TimerFires(1, w))
AutoCreateTimer ==
  /\ hooks[1].timer /\ log.createCalls < MaxCalls
  /\ Put(1, AfterTimer(World(1)))

\* getUserHeaders resolves inside sessionApi.getOrCreateSession
Posted(w) ==
  IF w.hook.call = "posted"
    THEN [w EXCEPT !.log.createCalls = @ + 1]
    ELSE [w EXCEPT !.log.refused = TRUE]
AfterHeaders(w) == Commit(w, Posted(getOrCreateSession(w)))
HeadersResolved ==
  /\ hooks[1].call = "headers"
  /\ Put(1, AfterHeaders(World(1)))

\* the creation request ends; the backend answers each request with a fresh id
AfterCreate(w, outcome) == Commit(w, creationEnded(w, outcome, NewSids[w.log.createCalls]))
CreateResponseOf(outcomes) ==
  \E outcome \in outcomes :
    /\ hooks[1].call \in {"posted", "reposted"}
    /\ Put(1, AfterCreate(World(1), outcome))
CreateResponse == CreateResponseOf(Outcomes)

\* the createUser request of the corrective action ends
UserSynced ==
  \E outcome \in SyncOutcomes :
    /\ hooks[1].call = "syncing"
    /\ LET w == World(1) IN Put(1, Commit(w, userSynced(w, outcome)))

\* -------------------------------------------------- actions: chat call
\* the handleSendMessage calls that can be running: the one the composer's send
\* started, and the one the delayed audio-transcript send started
Calls == {1, 2}
Swap(w) == [w EXCEPT !.send = w.net.second, !.net.second = w.send]
\* the state as call k sees it, and the state call k leaves
View(k) == IF k = 1 THEN World(1) ELSE Swap(World(1))
PutCall(k, r) == Put(1, IF k = 1 THEN r ELSE Swap(r))
Running(k) == IF k = 1 THEN send ELSE net.second

\* `await createSession()` and the 500 ms wait are over
SendAfterWait ==
  /\ send.phase = "wait"
  /\ send.awaiting => hooks[1].call = "none"
  /\ LET w == World(1) IN Put(1, Commit(w, SendAfterCreate(w)))

\* the 60 s timer aborts the controller
Aborted(w) ==
  LET a == [w EXCEPT !.send.abortArmed = FALSE, !.send.aborted = TRUE] IN
  Commit(w, IF w.send.phase = "fetching" THEN SendFailed(a) ELSE a)
AbortTimerOf(k) ==
  /\ Running(k).abortArmed
  /\ PutCall(k, Aborted(View(k)))
AbortTimer == AbortTimerOf(1)

\* the chat responses the backend gives to a request for session sid
EchoStreams(sid) ==
  {<<>>, <<Content(<<"a">>, FALSE)>>, <<Metadata(sid), Content(<<"a">>, TRUE)>>,
   <<Content(<<"a">>, FALSE), Metadata(sid)>>}
AppStreams(sid) == EchoStreams(sid) \cup {<<Content(<<CompletionPhrase>>, TRUE)>>}

\* fetch resolves with an OK response: clearTimeout, then the read loop
Reading(w, stream) ==
  Commit(w, [w EXCEPT !.send.phase = "reading", !.send.abortArmed = FALSE, !.send.stream = stream])
FetchResponseOf(streams) ==
  \E stream \in streams :
    /\ send.phase = "fetching"
    /\ Put(1, Reading(World(1), stream))
FetchResponse == FetchResponseOf(AppStreams(send.sessionId))

\* fetch rejects (connection refused), or the response is not OK
Failed(w) == Commit(w, SendFailed(w))
FetchFailedOf(k) ==
  /\ Running(k).phase = "fetching"
  /\ PutCall(k, Failed(View(k)))
FetchFailed == FetchFailedOf(1)

\* reader.read() delivers the next line
LineRead(w) == Commit(w, HandleLine(w, w.send.stream[w.send.pos + 1]))
ReadLineOf(k) ==
  /\ Running(k).phase = "reading"
  /\ Running(k).pos < Len(Running(k).stream)
  /\ PutCall(k, LineRead(View(k)))
ReadLine == ReadLineOf(1)

\* reader.read() reports the end of the stream
Ended(w) == Commit(w, SendCompleted(w))
StreamEndOf(k) ==
  /\ Running(k).phase = "reading"
  /\ Running(k).pos = Len(Running(k).stream)
  /\ PutCall(k, Ended(View(k)))
StreamEnd == StreamEndOf(1)

\* reader.read() rejects (the connection breaks in mid-stream)
ReadErrorOf(k) ==
  /\ Running(k).phase = "reading"
  /\ PutCall(k, Failed(View(k)))
ReadError == ReadErrorOf(1)

\* useSession.handleSessionUpdate: a new id is taken over, and a 100 ms timer will
\* verify the store (c is the render the listener was subscribed in)
HookSessionUpdate(c, w, sid) ==
  IF sid # c.hook.sessionId
    THEN [w EXCEPT !.hook.sessionId = sid, !.hook.isLoading = FALSE,
                   !.net.verify = @ \cup {[sid |-> sid, isAuth |-> c.hook.isAuthenticated]}]
    ELSE w

\* ChatPage.handleSessionUpdated
PageSessionUpdatedBroken(c, w, sid) ==
  IF sid # c.page.currentSessionId
    THEN [w EXCEPT !.page.currentSessionId = sid]
    ELSE [w EXCEPT !.page.currentSessionId = Empty, !.ls.chat_session = NoRecord]
PageSessionUpdated(c, w, sid) ==
  IF sid # c.page.currentSessionId THEN [w EXCEPT !.page.currentSessionId = sid] ELSE w

\* ChatPanel.handleSessionUpdate
PanelSessionUpdate(w, sid) ==
  [w EXCEPT !.panel.currentSessionId = sid, !.panel.sessionIdRef = sid]

\* a 'sessionUpdated' event reaches its listeners: the hook's, the page's, the panel's
SessionUpdatedOf(c, w, sid) ==
  PanelSessionUpdate(PageSessionUpdated(c, HookSessionUpdate(c, w, sid), sid), sid)
SessionUpdated(w, sid) == SessionUpdatedOf(w, w, sid)

\* a 'storage' event for chat_session reaches its listeners: useSession's
\* handleStorageChange, and ChatPanel's, which runs checkLocalStorageSession when it
\* has no session id prop
StorageChanged(w) ==
  checkInitialSession(w, IF Truthy(Prop(w)) THEN w ELSE checkLocalStorageSession(w, w))

\* the 200 ms timer armed by a metadata frame: publish the session id, tell the page
PublishSession(w) ==
  LET sid == Head(w.net.evTimers)
      t == [w EXCEPT !.net.evTimers = Tail(@)]
      e == IF w.panel.isNewSessionRef
             THEN [t EXCEPT !.log.published = @ \cup {sid}]
             ELSE SessionUpdated([t EXCEPT !.log.updated = @ \cup {sid}], sid)
  IN [e EXCEPT !.page.currentSessionId = sid]
EventTimer ==
  /\ net.evTimers # <<>>
  /\ LET w == World(1) IN Put(1, Commit(w, PublishSession(w)))

\* the 100 ms timer of useSession.handleSessionUpdate: a stored record with another
\* session id is overwritten with {sessionId, isAuthenticated}
verifyStore(w, v) ==
  LET stored == w.ls.chat_session IN
  [w EXCEPT !.net.verify = @ \ {v},
            !.ls.chat_session = IF IsRec(stored) /\ stored.sessionId # v.sid
                                  THEN Rec(v.sid, Undef, v.isAuth)
                                  ELSE @]
VerifyTimer ==
  \E v \in net.verify :
    LET w == World(1) IN Put(1, Commit(w, verifyStore(w, v)))

\* the 500 ms timer of a completion-gated send appends the canned prompt
PromptTimer ==
  /\ net.prompts > 0
  /\ LET w == World(1) IN
     Put(1, Commit(w, [w EXCEPT !.net.prompts = @ - 1,
                                !.panel.messages = Append(@, Msg("assistant", PromptText, Undef))]))

\* loadSessionMessages, catch: the statuses that mean the session is invalid
InvalidStatusBroken(outcome) == outcome \in {"e403", "e404", "e500"}
InvalidStatus(outcome) == outcome \in {"e403", "e404"}

\* loadSessionMessages after sessionApi.getSessionMessages(finalSessionId)
MessagesLoaded(w, sid, outcome) ==
  LET r == [w EXCEPT !.net.fetches = @ \ {sid}] IN
  CASE outcome = "history" -> [r EXCEPT !.panel.messages = History]
    [] outcome = "empty" -> [r EXCEPT !.panel.messages = Welcome]
    [] InvalidStatus(outcome) -> [r EXCEPT !.ls.chat_session = NoRecord,
                                           !.panel.messages = Welcome,
                                           !.panel.currentSessionId = Empty,
                                           !.panel.sessionIdRef = Empty,
                                           !.log.resync = TRUE,
                                           !.log.rejected = @ \cup {sid},
                                           !.log.committed = Undef]
    [] OTHER -> r
MessagesResponseOf(outcomes) ==
  \E sid \in net.fetches, outcome \in outcomes :
    LET w == World(1) IN Put(1, Commit(w, MessagesLoaded(w, sid, outcome)))
MessagesOutcomes == {"history", "empty", "e403", "e404", "e500", "efail"}
MessagesResponse == MessagesResponseOf(MessagesOutcomes)

Next ==
  \/ AuthLoaded \/ SignedOut
  \/ SelectSession \/ NewStoryClick \/ NewStory \/ EditMessage
  \/ Send
  \/ AutoCreateTimer \/ HeadersResolved \/ CreateResponse \/ UserSynced
  \/ SendAfterWait \/ AbortTimer \/ FetchResponse \/ FetchFailed
  \/ ReadLine \/ StreamEnd \/ ReadError
  \/ EventTimer \/ VerifyTimer \/ PromptTimer \/ MessagesResponse

Spec == Init /\ [][Next]_vars

\* ------------------------------------------------ concurrent creation
\* NumInstances mounted useSession instances (ChatPanel's and other components') that
\* share the module-level flag and the store; the user is signed in, nothing is stored
SignedIn == [isLoading |-> FALSE, user |-> "A"]
GuardInit ==
  LET w == HookMount(FirstRender(SignedIn, NoRecord)) IN
  InitFrom(w, [i \in Instances |-> w.hook])

\* one invocation of createSession on instance i, up to its first await
Turned(w, c) == [c EXCEPT !.log.guarded = @ + (IF w.hook.inProgress \/ w.g THEN 1 ELSE 0)]
Invoke(w) == Turned(w, createSessionSync(w, Prop(w), w.hook.sessionId, IsAuth(w)))

\* a component calls createSession() of its instance
GuardCall(i) ==
  /\ log.sends < MaxInvocations
  /\ LET w == World(i) IN
     Put(i, HookCommit(w, Invoke([w EXCEPT !.log.sends = @ + 1])))

\* the auto-create timer of instance i fires
GuardTimer(i) ==
  /\ hooks[i].timer /\ log.createCalls < MaxCalls
  /\ LET w == World(i) IN Put(i, HookCommit(w, Invoke([w EXCEPT !.hook.timer = FALSE])))

GuardHeaders(i) ==
  /\ hooks[i].call = "headers"
  /\ LET w == World(i) IN Put(i, HookCommit(w, Posted(getOrCreateSession(w))))

GuardResponse(i) ==
  \E outcome \in Outcomes :
    /\ hooks[i].call \in {"posted", "reposted"}
    /\ LET w == World(i) IN
       Put(i, HookCommit(w, creationEnded(w, outcome, NewSids[log.createCalls])))

GuardSynced(i) ==
  \E outcome \in SyncOutcomes :
    /\ hooks[i].call = "syncing"
    /\ LET w == World(i) IN Put(i, HookCommit(w, userSynced(w, outcome)))

GuardNext ==
  \E i \in Instances :
    GuardCall(i) \/ GuardTimer(i) \/ GuardHeaders(i) \/ GuardResponse(i) \/ GuardSynced(i)

SpecGuard == GuardInit /\ [][GuardNext]_vars

\* ----------------------------------------------------- one response stream
\* the signed-in user has sent a message and the response has started: in a
\* conversation restored from the store, or in one the hook has just created
Restored == Mount(FirstRender(SignedIn, Rec(OwnSid, "A", TRUE)))
Created == AfterCreate(AfterHeaders(AfterTimer(Mount(FirstRender(SignedIn, NoRecord)))), "ok")
StreamInit ==
  \E ctx \in {Restored, Created}, stream \in SeqsUpTo(Lines, MaxFrames) :
    AppInit(Reading(Sent(ctx), stream))
StreamNext ==
  ReadLine \/ StreamEnd \/ ReadError \/ EventTimer \/ VerifyTimer \/ MessagesResponse
SpecStream == StreamInit /\ [][StreamNext]_vars

\* ------------------------------------------------- the first conversation
\* empty store, signed-in user, a backend that answers: creation succeeds, the
\* chat stream echoes the session id it was asked for
FirstInit == AppInit(Mount(FirstRender(SignedIn, NoRecord)))
FirstNext ==
  \/ SendUpTo(MaxFirstSends) \/ AutoCreateTimer \/ HeadersResolved \/ CreateResponseOf({"ok"})
  \/ SendAfterWait \/ AbortTimer \/ FetchResponseOf(EchoStreams(send.sessionId)) \/ FetchFailed
  \/ ReadLine \/ StreamEnd \/ ReadError
  \/ EventTimer \/ MessagesResponseOf({"history", "empty", "efail"})
SpecFirst == FirstInit /\ [][FirstNext]_vars

\* ------------------------------------------------ the compose surface
MaxAudio == 1          \* audio transcripts handed to the composer in one run
AudioText == "t1"      \* the transcript of the recording

\* Composer.handleAudioData (the transcript is not empty): the 100 ms timer holds the
\* onSend prop, ChatPanel's handleSendMessage, of the render that created the handler
handleAudioData(w) ==
  [w EXCEPT !.net.audio = [armed |-> TRUE, used |-> @.used + 1, user |-> w.auth.user,
                           prop |-> Prop(w), hookSid |-> w.hook.sessionId, panel |-> w.panel]]
AudioData ==
  /\ net.audio.used < MaxAudio
  /\ Put(1, handleAudioData(World(1)))

\* the render a held handler belongs to: its state, props and hook values
Render(a, w) ==
  [w EXCEPT !.auth.user = a.user, !.page.currentSessionId = a.prop,
            !.hook.sessionId = a.hookSid, !.panel = a.panel]

\* the 100 ms timer calls the held onSend with the transcript
AudioSend(w) ==
  handleSendMessageOf(Render(w.net.audio, w), [w EXCEPT !.net.audio.armed = FALSE], AudioText)
AudioTimer ==
  /\ net.audio.armed
  /\ PutCall(2, Commit(View(2), AudioSend(View(2))))

\* the response to the chat request of call k starts
FetchResponseIn(k) ==
  \E stream \in EchoStreams(Running(k).sessionId) :
    /\ Running(k).phase = "fetching"
    /\ PutCall(k, Reading(View(k), stream))

\* a signed-in user in a restored conversation, who types and dictates
ComposeInit == AppInit(Restored)
ComposeNext ==
  \/ Send \/ AudioData \/ AudioTimer
  \/ \E k \in Calls :
       \/ FetchResponseIn(k) \/ FetchFailedOf(k) \/ AbortTimerOf(k)
       \/ ReadLineOf(k) \/ StreamEndOf(k) \/ ReadErrorOf(k)
  \/ EventTimer \/ MessagesResponseOf({"history", "empty", "efail"})
SpecCompose == ComposeInit /\ [][ComposeNext]_vars

\* ------------------------------------------------------ a corrupt store
\* the app opens on a browser whose chat_session entry does not parse
CorruptInit == \E a \in AuthInits : AppInit(Mount(FirstRender(a, Malformed)))
SpecCorrupt == CorruptInit /\ [][Next]_vars

\* ============================================================== claims
\* creation requests that have been started and have not ended
InFlight == {i \in Instances : hooks[i].call # "none"}

\* C1 (single-flight creation): of the createSession invocations that overlap, on one
\* instance or across instances, at most one is creating a session at any time; an
\* invocation made while one is running has returned without starting a request, so
\* the flag is up exactly while a creation is running.
C1_SingleFlight ==
  /\ Cardinality(InFlight) <= 1
  /\ globalSessionCreationInProgress <=> InFlight # {}
  /\ \A i \in Instances : hooks[i].inProgress <=> i \in InFlight
\* an invocation arrived while another instance's creation request was on its way
C1_Witness ==
  \E i, j \in Instances :
    /\ i # j /\ hooks[i].call = "posted" /\ hooks[j].call = "none"
    /\ log.guarded > 0 /\ log.createCalls = 1


Last(q) == q[Len(q)]

\* C2 (first conversation): with an empty store, a signed-in user and a backend that
\* answers, there is never more than one creation request however many messages are
\* sent and whenever the auto-create timer fires; every chat request carries the id
\* that creation returned, and once the creation has ended that id is in the store.
C2_OneCreation ==
  /\ log.createCalls <= 1
  /\ \A k \in 1..Len(log.chat) : log.createCalls = 1 /\ log.chat[k].sid = NewSids[1]
  /\ (log.createCalls = 1 /\ hooks[1].call = "none") =>
       (StoredSid(ls.chat_session) = NewSids[1] /\ hooks[1].sessionId = NewSids[1])
\* the first send went through createSession, the second reused the id
C2_Witness ==
  /\ Len(log.chat) = 2 /\ log.chat[1].fresh /\ ~log.chat[2].fresh
  /\ log.chat[2].sid = NewSids[1] /\ log.createCalls = 1

\* C3 (user scoping): while user A is signed in, the session of the record another
\* user left in the store is not the active session of the hook, the panel or the
\* page, its messages are not being fetched and no chat request is made for it.
C3_UserScoped ==
  auth.user = "A" =>
    /\ ForeignSid \notin Active(World(1))
    /\ ForeignSid \notin net.fetches
    /\ \A k \in 1..Len(log.chat) : log.chat[k].sid # ForeignSid

\* C4 (explicit empty id): no chat request goes to a session that was active when the
\* page asked for a new conversation.
C4_NewConversation == \A k \in 1..Len(log.chat) : ~log.chat[k].reused

\* C5 (no eager creation): a creation request has been issued only if a message has
\* been sent.
C5_NoEagerCreation == log.createCalls > 0 => log.sends > 0

\* C6 (unauthenticated callers): a creation request, first or retried, is issued only
\* in a step that starts with a signed-in user, it carries that user's id, and the
\* auto-create timer is armed only for a signed-in user.
C6_NoUnauthCreation ==
  [][/\ log'.createCalls > log.createCalls => auth.user # Null
     /\ hooks'[1].call = "posted" => hooks'[1].callUser # Null
     /\ hooks'[1].timer => auth'.user # Null]_vars

\* the content frame the read loop handles next, if any
NextLine == send.stream[send.pos + 1]
AtContent == send.phase = "reading" /\ send.pos < Len(send.stream) /\ NextLine.type = "content"

\* C7 (monotonic streaming): when a content frame that does not end the stream is
\* read, the last message shows the text accumulated before the frame followed by
\* the frame's fragment, and that is the text accumulated after it.
C7_Monotonic ==
  [][(AtContent /\ ~NextLine.done /\ ReadLine) =>
       /\ send'.acc = send.acc \o NextLine.content
       /\ Last(panel'.messages).content = send'.acc
       /\ Last(panel'.messages).role = "assistant"]_vars
\* two content frames have been shown
C7_Witness == send.phase = "reading" /\ Len(send.acc) >= 2 /\ Last(panel.messages).content = send.acc

\* the concatenation of the content frames up to and including the first done:true
RECURSIVE Expected(_)
Expected(stream) ==
  IF stream = <<>> THEN <<>>
  ELSE IF Head(stream).type # "content" THEN Expected(Tail(stream))
  ELSE IF Head(stream).done THEN Head(stream).content
  ELSE Head(stream).content \o Expected(Tail(stream))
\* the read loop ends: a done:true content frame, or the end of the stream
Finishes == StreamEnd \/ (AtContent /\ NextLine.done /\ ReadLine)

\* C8 (final content): when the read loop ends, the last message is the concatenation
\* of the content frames up to and including the first done:true (the fixed fallback
\* notice when that concatenation is empty or white space).
C8_FinalContent ==
  [][Finishes => Last(panel'.messages).content =
                   IF IsBlank(Expected(send.stream)) THEN FallbackText
                   ELSE Expected(send.stream)]_vars

\* C9 (no stuck state): as long as a chat call has not settled, the timer that
\* aborts it is running.
C9_NoStuckState == send.phase \in {"fetching", "reading"} => ENABLED AbortTimer

C11_CompletionGating ==
  [][/\ (panel.storyCompleted /\ Send) =>
          /\ log'.createCalls = log.createCalls /\ log'.chat = log.chat
          /\ hooks' = hooks /\ send' = send /\ net'.fetches = net.fetches
          /\ panel'.storyCompleted
          /\ panel'.messages =
               Append(panel.messages, Msg("user", Text(UserTexts[log.sends + 1]), Undef))
          /\ net'.prompts = net.prompts + 1
     /\ PromptTimer => panel'.messages = Append(panel.messages, Msg("assistant", PromptText, Undef))]_vars
\* a send to a completed conversation has been answered with the canned prompt
C11_Witness ==
  /\ panel.storyCompleted /\ Len(log.chat) = 1 /\ Len(panel.messages) >= 2
  /\ Last(panel.messages) = Msg("assistant", PromptText, Undef)
  /\ panel.messages[Len(panel.messages) - 1].role = "user"

\* C12 (new conversation clears the gate): after a new-conversation action, of the
\* panel or of the page, the completed flag is not set.
C12_GateCleared == [][(NewStory \/ NewStoryClick) => ~panel'.storyCompleted]_vars

\* C13 (invalid session recovery): when the fetch of a session's messages ends with
\* 403 or 404, the store holds no record, the panel's session id (state and ref) is
\* empty ('' or undefined), the transcript is the welcome message and the re-sync has been asked for;
\* when it ends with another status or without a response, store, session id,
\* transcript and re-sync are as before.
C13_InvalidSession ==
  [][/\ MessagesResponseOf({"e403", "e404"}) =>
          /\ ls'.chat_session = NoRecord
          /\ ~Truthy(panel'.currentSessionId) /\ ~Truthy(panel'.sessionIdRef)
          /\ panel'.messages = Welcome
          /\ log'.resync
     /\ MessagesResponseOf({"e500", "efail"}) =>
          /\ ls' = ls
          /\ panel'.currentSessionId = panel.currentSessionId
          /\ panel'.sessionIdRef = panel.sessionIdRef
          /\ panel'.messages = panel.messages
          /\ log'.resync = log.resync]_vars
\* the restored session was rejected: the store is empty and the panel has no session
C13_Witness ==
  /\ log.resync /\ ls.chat_session = NoRecord /\ panel.messages = Welcome
  /\ panel.currentSessionId = Empty /\ panel.sessionIdRef = Empty
  /\ net.fetches = {} /\ log.sends = 0

\* nothing is pending: no send, no creation, no timer, no fetch
Quiet ==
  /\ send.phase = "idle" /\ hooks[1].call = "none" /\ ~hooks[1].timer
  /\ net.evTimers = <<>> /\ net.fetches = {} /\ net.prompts = 0

\* C14 (creation is persisted and published): the step in which a creation succeeds
\* leaves the record {sessionId, userId, isAuthenticated} of the issued id in the
\* store, and once nothing is pending any more a 'sessionCreated' event has carried
\* every id that a creation returned.
C14_CreatedPublished ==
  [][/\ CreateResponseOf({"ok"}) =>
          ls'.chat_session = Rec(NewSids[log.createCalls], hooks[1].callUser, TRUE)
     /\ Quiet' => log'.issued \subseteq log'.published]_vars

\* the session ids of the metadata frames of a response
MetaSids(stream) ==
  {stream[k].session_id : k \in {j \in 1..Len(stream) :
                                  stream[j].type = "metadata" /\ Truthy(stream[j].session_id)}}
AtMetadata ==
  /\ send.phase = "reading" /\ send.pos < Len(send.stream)
  /\ NextLine.type = "metadata" /\ Truthy(NextLine.session_id)
TimerSids == {net.evTimers[k] : k \in 1..Len(net.evTimers)}

\* C15 (metadata is captured wherever it sits): when a metadata frame is read its
\* session id is the panel's session id and the stored one, and its broadcast is
\* scheduled; when the read loop ends, the session id of every metadata frame of the
\* response has been broadcast or its broadcast is scheduled.
C15_MetadataCaptured ==
  [][/\ (AtMetadata /\ ReadLine) =>
          /\ panel'.sessionIdRef = NextLine.session_id
          /\ StoredSid(ls'.chat_session) = NextLine.session_id
          /\ NextLine.session_id \in TimerSids'
     /\ Finishes => MetaSids(send.stream) \subseteq (TimerSids' \cup log'.published \cup log'.updated)]_vars

\* the text accumulated when the read loop ends
FinalAcc == IF AtContent THEN send.acc \o NextLine.content ELSE send.acc
Settled == send.phase = "idle" /\ ~panel.isLoading

\* C16 (empty stream fallback): when the read loop ends with an accumulated text that
\* is empty or white space, the last message is the fallback notice; and a settled
\* transcript does not end with an assistant message that is empty or white space.
C16_EmptyFallback ==
  [][/\ (Finishes /\ \A i \in 1..Len(FinalAcc) : FinalAcc[i] = " ") =>
          Last(panel'.messages) = Msg("assistant", FallbackText, Undef)
     /\ Settled' =>
          ~(/\ Last(panel'.messages).role = "assistant"
            /\ \A i \in 1..Len(Last(panel'.messages).content) :
                  Last(panel'.messages).content[i] = " ")]_vars
\* a response without text has ended and the notice is shown
C16_Witness ==
  /\ Settled /\ log.sends = 1 /\ Len(panel.messages) >= 2
  /\ Last(panel.messages) = Msg("assistant", FallbackText, Undef)
  /\ panel.messages[Len(panel.messages) - 1].role = "user"

\* the running chat call ends otherwise than by the end of the read loop
Fails == send.phase \in {"wait", "fetching", "reading"} /\ send'.phase = "idle" /\ ~Finishes

\* C17 (a failed call shows the error): when the chat call fails (no session after
\* createSession, abort, rejected fetch or non-OK status, read error) the transcript
\* is the one before the failure with its last message replaced by the error
\* message, the panel is no longer loading, and no settled transcript ends with the
\* empty placeholder.
C17_FailureShown ==
  [][/\ Fails => /\ panel'.messages = SetLast(panel.messages, Msg("assistant", ErrorText, Undef))
                 /\ ~panel'.isLoading /\ ~panel'.isProcessingMessage
     /\ Settled' => Last(panel'.messages) # Msg("assistant", <<>>, Undef)]_vars
\* the chat request of the first send failed: user message, then the error message
C17_Witness ==
  /\ Settled /\ Len(log.chat) = 1 /\ Len(panel.messages) >= 2
  /\ Last(panel.messages) = Msg("assistant", ErrorText, Undef)
  /\ panel.messages[Len(panel.messages) - 1] = Msg("user", Text(UserTexts[1]), Undef)

\* the next line has no "data: " prefix, or its JSON is malformed
AtDropped ==
  /\ send.phase = "reading" /\ send.pos < Len(send.stream)
  /\ NextLine.type \in {"noprefix", "badjson"}

\* C18 (malformed lines are dropped): reading a line without the prefix or with
\* malformed JSON changes neither the transcript, the session state, the store nor
\* what is pending; the read loop goes on with the next line.
C18_LineDropped ==
  [][(AtDropped /\ ReadLine) =>
       /\ panel' = panel /\ ls' = ls /\ hooks' = hooks /\ page' = page /\ net' = net
       /\ log' = log /\ auth' = auth
       /\ send' = [send EXCEPT !.pos = @ + 1]]_vars
\* a content frame that followed a malformed frame and a line without prefix is shown
C18_Witness ==
  /\ send.phase = "reading" /\ send.pos = 3
  /\ send.stream[1].type = "badjson" /\ send.stream[2].type = "noprefix"
  /\ send.stream[3] = Content(<<"a">>, FALSE)
  /\ Last(panel.messages) = Msg("assistant", <<"a">>, Undef)

C20_OneRetry ==
  [][\A i \in Instances :
       /\ hooks'[i].posts <= 2 /\ hooks'[i].syncs <= 1
       /\ log'.createCalls <= log.createCalls + 1
       /\ (hooks[i].call = "syncing" /\ hooks'[i].call # "syncing") =>
            \/ hooks'[i].call = "reposted" /\ log'.createCalls = log.createCalls + 1
            \/ hooks'[i].call = "none" /\ log'.createCalls = log.createCalls /\ ls'.blocked
       /\ (hooks[i].call = "reposted" /\ hooks'[i].call # "reposted") =>
            /\ hooks'[i].call = "none" /\ log'.createCalls = log.createCalls
            /\ ls'.blocked \/ StoredSid(ls'.chat_session) = NewSids[log.createCalls]
                 \/ ls' = [ls EXCEPT !.blocked = FALSE]]_vars
\* the user has been re-registered and the creation request has been sent again
C20_Witness ==
  \E i \in Instances :
    /\ hooks[i].call = "reposted" /\ hooks[i].posts = 2 /\ hooks[i].syncs = 1
    /\ log.createCalls = 2

\* C21 (client errors block for good): a creation whose first request fails with 400,
\* or with 404 for another reason than a missing user, leaves the blocked marker in
\* the store and the auto-create timer unarmed; while the marker is there the timer
\* starts no creation.
C21_PermanentBlock ==
  [][/\ (hooks[1].call = "posted" /\ CreateResponseOf({"e400", "e404"})) =>
          (ls'.blocked /\ ~hooks'[1].timer)
     /\ ls.blocked => ~(AutoCreateTimer /\ hooks'[1].call # "none")]_vars

\* C22 (other errors): a creation that ends without a response (a network error)
\* changes nothing in the store, and it ends in a caller that awaits its outcome: the
\* send that started it.
C22_OtherErrors ==
  [][(hooks[1].call = "posted" /\ CreateResponseOf({"efail"})) =>
       /\ ls' = ls
       /\ send.phase = "wait" /\ send.awaiting]_vars
\* C22, the part about the store: a creation that ends without a response leaves
\* the session record, the blocked marker and the error detail as they were.
C22_NothingPersisted ==
  [][(hooks[1].call = "posted" /\ CreateResponseOf({"efail"})) => ls' = ls]_vars

\* C23 (one stream per transcript): no two handleSendMessage calls are running at
\* the same time, whatever the order of the send button, the Enter key and the
\* delayed audio-transcript send.
C23_OneStream == ~(send.phase # "idle" /\ net.second.phase # "idle")

\* C24 (only the last element changes): a step taken while a response is being read
\* leaves the length of the message list and every position but the last as they
\* were, and a last element that changed shows the text accumulated so far.
C24_OnlyLastReplaced ==
  [][(send.phase = "reading" /\ send'.phase = "reading") =>
       /\ Len(panel'.messages) = Len(panel.messages)
       /\ \A i \in 1..(Len(panel.messages) - 1) : panel'.messages[i] = panel.messages[i]
       /\ panel'.messages # panel.messages =>
            Last(panel'.messages) = Msg("assistant", send'.acc, Undef)]_vars

\* C25 (settled releases the compose surface): when no handleSendMessage call is
\* running, isLoading and isProcessingMessage are both false.
C25_ComposeReleased ==
  (send.phase = "idle" /\ net.second.phase = "idle") =>
    (~panel.isLoading /\ ~panel.isProcessingMessage)

\* C26 (unauthenticated send): a send made while nobody is signed in (and the
\* conversation is not completed) issues no chat request, starts no creation, and
\* ends with the error shown as the last message.
C26_UnauthFailsFast ==
  [][(auth.user = Null /\ ~panel.storyCompleted /\ Send) =>
       /\ log'.chat = log.chat /\ log'.createCalls = log.createCalls
       /\ hooks' = hooks /\ send' = send
       /\ Last(panel'.messages) = Msg("assistant", ErrorText, Undef)]_vars
\* C26, the part about requests: a send made while nobody is signed in issues no
\* chat request and starts no creation.
C26_NoRequest ==
  [][(auth.user = Null /\ Send) =>
       /\ log'.chat = log.chat /\ log'.createCalls = log.createCalls
       /\ hooks' = hooks /\ send' = send]_vars

\* C27 (malformed store): once the components have mounted, and so have read the
\* stored record, the store does not hold an entry that does not parse.
C27_FailsClosed == ls.chat_session # Malformed

\* C28 (complete records): a record in the store has its three fields sessionId,
\* userId and isAuthenticated.
C28_CompleteRecord ==
  IsRec(ls.chat_session) =>
    (Truthy(ls.chat_session.sessionId) /\ Truthy(ls.chat_session.userId))

\* the session ids and records that notifications carry
NotifiedSids == {OwnSid, NewSids[1]}
NotifiedRecords == {Rec(sid, uid, TRUE) : sid \in NotifiedSids, uid \in {"A", Undef}}
\* one notification delivered, and the render that follows it
AfterUpdate(w, sid) == Commit(w, SessionUpdated(w, sid))
AfterStorage(w) == Commit(w, StorageChanged(w))
Stored(w, r) == [w EXCEPT !.ls.chat_session = r]
\* the same 'sessionUpdated' event dispatched twice before the listeners re-render
UpdatedTwice(w, sid) == Commit(w, SessionUpdatedOf(w, SessionUpdated(w, sid), sid))
IdempotentUpdate(w, sid) ==
  /\ AfterUpdate(AfterUpdate(w, sid), sid) = AfterUpdate(w, sid)
  /\ UpdatedTwice(w, sid) = AfterUpdate(w, sid)
IdempotentStorage(w) == AfterStorage(AfterStorage(w)) = AfterStorage(w)

\* C29 (idempotent subscribers): in every state, delivering a 'sessionUpdated' event
\* a second time, after or before the listeners have re-rendered, or a storage
\* notification for the same record a second time, leaves session state, store,
\* transcript and what is pending as the first delivery left them.
C29_Idempotent ==
  /\ \A sid \in NotifiedSids : IdempotentUpdate(World(1), sid)
  /\ \A r \in NotifiedRecords : IdempotentStorage(Stored(World(1), r))
\* a 'sessionUpdated' event has been delivered and has changed the hook's session
C29_Witness ==
  /\ log.updated # {} /\ hooks[1].sessionId \in log.updated
  /\ \E v \in net.verify : v.sid = hooks[1].sessionId

\* C30 (FIFO per publisher): when a send publishes its event at the end of the
\* stream, the delayed events it scheduled at its metadata frames have all been
\* delivered.
C30_Fifo == [][(Finishes /\ panel.isNewSessionRef) => net.evTimers = <<>>]_vars

\* C31 (creation flags): while a creation request, or its corrective action, is on
\* its way the flag of its instance and the global flag are set, and when no
\* creation is running on an instance its flag is false, and the global flag is
\* false when none is running at all.
C31_FlagsCleared ==
  /\ \A i \in Instances :
       /\ hooks[i].call \in {"headers", "posted", "syncing", "reposted"} =>
            (hooks[i].inProgress /\ globalSessionCreationInProgress)
       /\ hooks[i].call = "none" => ~hooks[i].inProgress
  /\ (\A i \in Instances : hooks[i].call = "none") => ~globalSessionCreationInProgress
\* a creation has ended by the exception of getOrCreateSession, another with a
\* response, and nothing is running
C31_Witness ==
  /\ log.refused /\ log.createCalls > 0
  /\ hooks[1].call = "none" /\ ~hooks[1].inProgress /\ ~globalSessionCreationInProgress

\* ------------------------------------------- restoring the last session
\* ChatPage.initializeSession as a procedure of the page: the inputs are the auth
\* context, the store and the page's currentSessionId, among them the value for which
\* the most-recent-session lookup is made (neither '' nor an id)
PageIds == {Undef, Empty, OwnSid}

\* the retry loop goes round again after a failed attempt
MoreAttemptsBroken(attempt) == attempt < 3
MoreAttempts(attempt) == attempt < 2

RunDone(w, r, res) ==
  [w EXCEPT !.net.restore.done = TRUE,
            !.net.restore.runs[r].phase = "done",
            !.net.restore.runs[r].result = res]

\* initializeSession up to its first await, as call number r
initializeSession(w, r) ==
  LET stored == w.ls.chat_session IN
  IF w.auth.isLoading \/ ~IsAuth(w) THEN w
  ELSE IF w.net.restore.done THEN w
  ELSE IF Prop(w) = Empty THEN [w EXCEPT !.net.restore.done = TRUE]
  ELSE IF Truthy(Prop(w)) THEN [w EXCEPT !.net.restore.done = TRUE]
  ELSE IF IsRec(stored) /\ Truthy(stored.sessionId)
    THEN [w EXCEPT !.page.currentSessionId = stored.sessionId, !.net.restore.done = TRUE]
  ELSE [w EXCEPT !.net.restore.runs[r] =
                   [Run0 EXCEPT !.phase = "fetch", !.calls = 1, !.user = w.auth.user]]

\* the page's effects after a render in which the auth context changed: the first
\* resets hasRestoredSessionRef, the second calls initializeSession
PageAuthEffects(prev, w, r) ==
  LET reset == ~w.auth.isLoading /\
               (prev.auth.isLoading # w.auth.isLoading \/ IsAuth(prev) # IsAuth(w))
  IN initializeSession(IF reset THEN [w EXCEPT !.net.restore.done = FALSE] ELSE w, r)

FreeRuns == {r \in Runs : net.restore.runs[r].phase \in {"idle", "done"}}
FreeRun == CHOOSE r \in FreeRuns : \A q \in FreeRuns : r <= q

\* what sessionApi.getSessions(1) gives: a list with a session, no session (an empty
\* list, also on a 404), a null body, or an exception
LookupOutcomes == {"found", "none", "null", "efail"}

\* initializeSession from the end of one sessionApi.getSessions(1) to its next await
lookupEnded(w, r, outcome) ==
  LET run == w.net.restore.runs[r]
      answered == [w EXCEPT !.net.restore.runs[r].ok = TRUE]
  IN
  CASE outcome = "efail" ->
         IF MoreAttempts(run.attempt)
           THEN [w EXCEPT !.net.restore.runs[r].lastError = TRUE,
                          !.net.restore.runs[r].phase = "backoff"]
           ELSE RunDone(w, r, "failed")
    [] outcome = "null" ->
         RunDone(answered, r, IF run.lastError THEN "failed" ELSE "nosession")
    [] outcome = "none" -> RunDone(answered, r, "nosession")
    [] OTHER ->
         RunDone([answered EXCEPT !.page.currentSessionId = OwnSid,
                                  !.ls.chat_session = Rec(OwnSid, run.user, TRUE)],
                 r, "found")

\* the backoff timer: the next round of the loop
nextAttempt(w, r) ==
  [w EXCEPT !.net.restore.runs[r].attempt = @ + 1,
            !.net.restore.runs[r].calls = @ + 1,
            !.net.restore.runs[r].phase = "fetch"]

PageMount(raw) == Commit(raw, PageAuthEffects([raw EXCEPT !.auth.isLoading = ~@], raw, 1))
RestoreInit ==
  \E a \in AuthInits, store \in InitStores \cup {Malformed}, id \in PageIds :
    AppInit(PageMount(Mount([FirstRender(a, store) EXCEPT !.page.currentSessionId = id])))

\* the auth context changes: ChatPanel's effects run, then the page's
AuthSettles(w, a) == Commit(w, [w EXCEPT !.auth = a, !.ls.user = a.user])
AfterAuth(prev, w, r) == Commit(w, PageAuthEffects(prev, w, r))
AuthChanged ==
  \E a \in AuthInits :
    /\ ~a.isLoading /\ a # auth /\ FreeRuns # {}
    /\ LET w == World(1) IN Put(1, AfterAuth(w, AuthSettles(w, a), FreeRun))

LookupResponse ==
  \E r \in Runs, outcome \in LookupOutcomes :
    /\ net.restore.runs[r].phase = "fetch"
    /\ LET w == World(1) IN Put(1, Commit(w, lookupEnded(w, r, outcome)))

BackoffTimer ==
  \E r \in Runs :
    /\ net.restore.runs[r].phase = "backoff"
    /\ LET w == World(1) IN Put(1, Commit(w, nextAttempt(w, r)))

RestoreNext ==
  \/ AuthChanged \/ LookupResponse \/ BackoffTimer
  \/ AutoCreateTimer \/ HeadersResolved \/ CreateResponse \/ UserSynced
  \/ MessagesResponseOf({"history", "e404"})

SpecRestore == RestoreInit /\ [][RestoreNext]_vars

\* C32: a most-recent-session lookup makes at most 3 requests and none after one
\* was answered; the request whose failure ends it leaves the page without a session,
\* the store as it was, and starts no session creation
LookupFails(r) ==
  /\ net.restore.runs[r].phase = "fetch"
  /\ net'.restore.runs[r].phase = "done"
  /\ net'.restore.runs[r].result = "failed"
C32_BoundedLookup ==
  /\ [](\A r \in Runs :
          /\ net.restore.runs[r].calls <= 3
          /\ net.restore.runs[r].ok => net.restore.runs[r].phase = "done")
  /\ [][\A r \in Runs :
          LookupFails(r) =>
            /\ page' = page /\ ls' = ls /\ panel' = panel
            /\ hooks' = hooks /\ log' = log
            /\ globalSessionCreationInProgress' = globalSessionCreationInProgress]_vars
C32_Witness ==
  \E r \in Runs :
    /\ net.restore.runs[r].phase = "done" /\ net.restore.runs[r].result = "failed"
    /\ net.restore.runs[r].calls = 3 /\ ~net.restore.runs[r].ok
    /\ ~Truthy(page.currentSessionId) /\ log.createCalls = 0

\* ------------------------------------------------------ edit and resend
\* a signed-in user in a conversation restored from the store edits messages, sends,
\* and may ask for a new conversation in between
MaxEditClicks == 2     \* clicks on edit buttons and on the new-chat button
MaxEditSends == 2      \* messages sent
\* the backend answers with text, or commits the conversation to a session of its own
EditStreams == {<<Content(<<"a">>, FALSE)>>, <<Metadata(NewSids[1]), Content(<<"a">>, TRUE)>>}
EditInit == AppInit(Restored)
EditNext ==
  \/ EditMessageUpTo(MaxEditClicks) \/ NewStoryClickUpTo(MaxEditClicks)
  \/ SendUpTo(MaxEditSends)
  \/ AutoCreateTimer \/ HeadersResolved \/ CreateResponseOf({"ok"})
  \/ AbortTimer \/ FetchResponseOf(EditStreams) \/ FetchFailed
  \/ ReadLine \/ StreamEnd \/ ReadError
  \/ EventTimer \/ VerifyTimer \/ MessagesResponseOf({"history", "efail"})
SpecEdit == EditInit /\ [][EditNext]_vars

\* C33 (edit directive): a chat request issued by a send that was made in edit mode,
\* the send that truncates the transcript at the edited message, carries
\* edit_from_message_id.
C33_EditDirective ==
  [][(Len(log'.chat) > Len(log.chat) /\ send'.cEditing) => Truthy(Last(log'.chat).edit)]_vars

\* C34 (one session per transcript): once another conversation has been selected
\* while a response is on its way, and its messages have been loaded, the call
\* that reads the response writes nothing into the transcript.
C34_OneSession ==
  [][(/\ send.phase \in {"fetching", "reading"} /\ send' # send
      /\ send.sessionId # OwnSid /\ page.currentSessionId = OwnSid
      /\ panel.messages = History) =>
       panel'.messages = panel.messages]_vars

\* ------------------------------------------------ the response as bytes
\* the text of a frame in three pieces (the "data: " prefix, the first and the second
\* half of its JSON), then the newline; reader.read() delivers the payload in chunks
MaxChunkFrames == 2    \* frames of one response
ChunkFrames == {Content(<<"a">>, FALSE), Content(<<"b">>, TRUE), Metadata(NewSids[1])}
Piece(frame, part) == [frame |-> frame, part |-> part]
NewLine == Piece(NoPrefix, 0)
Bytes(frame) == <<Piece(frame, 1), Piece(frame, 2), Piece(frame, 3), NewLine>>
RECURSIVE Payload(_)
Payload(frames) == IF frames = <<>> THEN <<>> ELSE Bytes(Head(frames)) \o Payload(Tail(frames))

\* the reads of a payload that is cut after the positions in cuts
ChunkEnd(payload, cuts, start) ==
  CHOOSE e \in cuts \cup {Len(payload)} :
    e >= start /\ \A x \in cuts \cup {Len(payload)} : x >= start => e <= x
RECURSIVE Chunks(_, _, _)
Chunks(payload, cuts, start) ==
  IF start > Len(payload) THEN <<>>
  ELSE <<SubSeq(payload, start, ChunkEnd(payload, cuts, start))>>
         \o Chunks(payload, cuts, ChunkEnd(payload, cuts, start) + 1)

\* chunk.split('\n')
FirstNewLine(chunk) == CHOOSE i \in 1..Len(chunk) : chunk[i] = NewLine /\ \A j \in 1..(i - 1) : chunk[j] # NewLine
RECURSIVE SplitLines(_)
SplitLines(chunk) ==
  IF \A i \in 1..Len(chunk) : chunk[i] # NewLine THEN <<chunk>>
  ELSE <<SubSeq(chunk, 1, FirstNewLine(chunk) - 1)>>
         \o SplitLines(SubSeq(chunk, FirstNewLine(chunk) + 1, Len(chunk)))

\* line.startsWith('data: '), then JSON.parse(line.slice(6)): only the whole text of a
\* frame parses
ParseLine(line) ==
  IF line = <<>> THEN NoPrefix
  ELSE IF line[1].part # 1 THEN NoPrefix
  ELSE IF Len(line) = 3 THEN line[1].frame
  ELSE BadJson

\* the body of the for loop over the lines of a chunk
applyLine(w, line) ==
  CASE line.type = "content" -> ContentFrame(w, line)
    [] line.type = "metadata" -> MetadataFrame(w, line)
    [] OTHER -> DropLine(w)
RECURSIVE applyLines(_, _)
applyLines(w, lines) ==
  IF lines = <<>> THEN w
  ELSE applyLines(applyLine(w, ParseLine(Head(lines))), Tail(lines))
HasDone(lines) ==
  \E i \in 1..Len(lines) : ParseLine(lines[i]).type = "content" /\ ParseLine(lines[i]).done

\* one round of the read loop: every line of the chunk is handled, and the loop ends
\* after the chunk when one of them was a done:true content frame
chunkLines(w, lines) ==
  IF HasDone(lines) THEN SendCompleted(applyLines(w, lines)) ELSE applyLines(w, lines)
chunkRead(w, chunk) == chunkLines([w EXCEPT !.send.pos = @ + 1], SplitLines(chunk))
ReadChunk ==
  /\ send.phase = "reading"
  /\ send.pos < Len(send.stream)
  /\ LET w == World(1) IN Put(1, Commit(w, chunkRead(w, w.send.stream[w.send.pos + 1])))

\* a response to a message sent in the restored conversation, in every division
\* of its bytes into reads
ChunkInit ==
  \E frames \in SeqsUpTo(ChunkFrames, MaxChunkFrames) :
    \E cuts \in SUBSET (1..(4 * Len(frames) - 1)) :
      AppInit(Reading(Sent(Restored), Chunks(Payload(frames), cuts, 1)))
ChunkNext == ReadChunk \/ StreamEnd
SpecChunks == ChunkInit /\ [][ChunkNext]_vars

\* the frames of a response, whatever the reads were
RECURSIVE Flatten(_)
Flatten(chunks) == IF chunks = <<>> THEN <<>> ELSE Head(chunks) \o Flatten(Tail(chunks))
FramesOf(chunks) ==
  [i \in 1..Len(SplitLines(Flatten(chunks))) |-> ParseLine(SplitLines(Flatten(chunks))[i])]
\* the session id captured from the frames up to the first done:true
RECURSIVE Captured(_, _)
Captured(frames, sid) ==
  IF frames = <<>> THEN sid
  ELSE IF Head(frames).type = "content" /\ Head(frames).done THEN sid
  ELSE Captured(Tail(frames),
                IF Head(frames).type = "metadata" /\ Truthy(Head(frames).session_id)
                  THEN Head(frames).session_id ELSE sid)

MaxDeleteClicks == 2   \* clicks in the sidebar: delete, select, new chat
DeletedIds == {Undef, OwnSid, NewSids[1]}

PageSessionDeleted(c, w, d) ==
  IF Truthy(d) /\ d = c.page.currentSessionId
    THEN [w EXCEPT !.page.currentSessionId = Empty, !.ls.chat_session = NoRecord]
    ELSE w
PanelSessionDeleted(c, w, d) ==
  IF Truthy(d) /\ d = Or(c.panel.currentSessionId, w.panel.sessionIdRef)
    THEN [w EXCEPT !.panel.currentSessionId = Empty,
                   !.panel.sessionIdRef = Empty,
                   !.panel.messages = Welcome,
                   !.ls.chat_session = NoRecord]
    ELSE w
sessionDeleted(w, d) ==
  PageSessionDeleted(w, PanelSessionDeleted(w, [w EXCEPT !.log.committed = Undef], d), d)
SessionDeletedOf(d) ==
  /\ auth.user # Null /\ log.clicks < MaxDeleteClicks
  /\ LET w == World(1) IN Put(1, Commit(w, Click(sessionDeleted(w, d))))
SessionDeleted == \E d \in DeletedIds : SessionDeletedOf(d)

DeleteInit == \E store \in {NoRecord, Rec(OwnSid, "A", TRUE)} : AppInit(Mount(FirstRender(SignedIn, store)))
DeleteNext ==
  \/ SessionDeleted \/ SelectSessionUpTo(MaxDeleteClicks) \/ NewStoryClickUpTo(MaxDeleteClicks)
  \/ SendUpTo(MaxSends)
  \/ AutoCreateTimer \/ HeadersResolved \/ CreateResponseOf({"ok"}) \/ SendAfterWait
  \/ AbortTimer \/ FetchResponseOf(EchoStreams(send.sessionId)) \/ FetchFailed
  \/ ReadLine \/ StreamEnd \/ ReadError
  \/ EventTimer \/ VerifyTimer \/ MessagesResponseOf({"history", "efail"})
SpecDelete == DeleteInit /\ [][DeleteNext]_vars

\* C36 (session deleted): the current session id is the one the next send would use
\* (prop, panel state, hook, ref, in that order).  When the deleted id is the
\* current one, there is no current session id afterwards, the store holds no
\* record and the transcript is the welcome message; when the deleted id is missing
\* or is held nowhere, session ids, store and transcript stay as they are.
CurrentSession ==
  Or(page.currentSessionId,
     Or(panel.currentSessionId, Or(hooks[1].sessionId, panel.sessionIdRef)))
Holders ==
  {page.currentSessionId, panel.currentSessionId, hooks[1].sessionId, panel.sessionIdRef,
   StoredSid(ls.chat_session)}
C36_SessionDeleted ==
  [][\A d \in DeletedIds :
       SessionDeletedOf(d) =>
         /\ (Truthy(d) /\ d = CurrentSession) =>
              /\ ~Truthy(CurrentSession')
              /\ ls'.chat_session = NoRecord /\ panel'.messages = Welcome
         /\ d \notin Holders =>
              /\ page' = page /\ panel'.currentSessionId = panel.currentSessionId
              /\ hooks' = hooks /\ ls' = ls /\ panel'.messages = panel.messages]_vars

\* C37 (a rejected session is not used): a chat request is never made for a session
\* id whose messages the backend refused with 403/404, unless the user has selected
\* that session again since.
C37_RejectedNotUsed ==
  [][Len(log'.chat) > Len(log.chat) => Last(log'.chat).sid \notin log.rejected]_vars

\* C38 (the committed session is used): a send made after a metadata frame has
\* committed session id S, in the conversation that frame belongs to, makes its chat
\* request with S.
C38_CommittedUsed ==
  [][(SendUpTo(MaxEditSends) /\ Truthy(log.committed) /\ Len(log'.chat) > Len(log.chat)) =>
       Last(log'.chat).sid = log.committed]_vars

\* ------------------------------------------------------ logout and the stored session
\* Two AuthProviders are in the sources.  `logout` is the token-based one of
\* lib/auth-context.tsx, the module the components import; `supabaseLogout` is the
\* Supabase-based one.  Both set isLoading, await the sign-out request, then clear.
LogoutImpls == {"logout", "supabaseLogout"}
LogoutOutcomes == {"ok", "error"}

\* lib/auth-context.tsx logout, after the awaited request: its error is ignored;
\* auth_token and auth_user are removed, setUser(null), four other keys are
\* removed ('chat_session' is not among them); finally setIsLoading(false)
logout(w, outcome) ==
  [w EXCEPT !.auth = [isLoading |-> FALSE, user |-> Null], !.ls.user = Null,
            !.net.authCall = "returned"]

\* the Supabase provider's logout, after the awaited request: 'chat_session' is
\* removed and setUser(null) is called on the success path and in the catch, which
\* rethrows; finally setIsLoading(false)
supabaseLogout(w, outcome) ==
  [w EXCEPT !.auth = [isLoading |-> FALSE, user |-> Null], !.ls.user = Null,
            !.ls.chat_session = NoRecord,
            !.net.authCall = IF outcome = "ok" THEN "returned" ELSE "thrown"]

logoutEnded(w, impl, outcome) ==
  IF impl = "logout" THEN logout(w, outcome) ELSE supabaseLogout(w, outcome)

AuthIdle == net.authCall \in {"none", "returned", "thrown"}

\* logout() is called from the top bar or the profile dialog: setIsLoading(true)
LogoutStart ==
  \E impl \in LogoutImpls :
    /\ AuthIdle /\ auth.user # Null /\ ~auth.isLoading
    /\ LET w == World(1) IN
       Put(1, Commit(w, [w EXCEPT !.auth.isLoading = TRUE, !.net.authCall = impl]))

\* the sign-out request settles and the rest of logout() runs
LogoutEnd ==
  \E outcome \in LogoutOutcomes :
    /\ net.authCall \in LogoutImpls
    /\ LET w == World(1) IN Put(1, Commit(w, logoutEnded(w, net.authCall, outcome)))

\* login(): setIsLoading(true), the request, then setUser on success; finally
\* setIsLoading(false)
LoginStart ==
  /\ AuthIdle /\ auth.user = Null /\ ~auth.isLoading
  /\ LET w == World(1) IN
     Put(1, Commit(w, [w EXCEPT !.auth.isLoading = TRUE, !.net.authCall = "login"]))

loginEnded(w, u) ==
  [w EXCEPT !.auth = [isLoading |-> FALSE, user |-> u], !.ls.user = u,
            !.net.authCall = IF u = Null THEN "thrown" ELSE "returned"]

LoginEnd ==
  \E u \in Users \cup {Null} :
    /\ net.authCall = "login"
    /\ LET w == World(1) IN Put(1, Commit(w, loginEnded(w, u)))

MaxLogoutSends == 1
LogoutInit == \E store \in InitStores : AppInit(Mount(FirstRender(SignedIn, store)))
LogoutNext ==
  \/ LogoutStart \/ LogoutEnd \/ LoginStart \/ LoginEnd
  \/ SendUpTo(MaxLogoutSends)
  \/ AutoCreateTimer \/ HeadersResolved \/ CreateResponseOf({"ok"})
  \/ AbortTimer \/ FetchResponseOf(EchoStreams(send.sessionId)) \/ FetchFailed
  \/ ReadLine \/ StreamEnd \/ ReadError
  \/ EventTimer \/ VerifyTimer \/ MessagesResponseOf({"history", "efail"})
SpecLogout == LogoutInit /\ [][LogoutNext]_vars

\* C39 (logout): when logout() has returned or thrown, the store holds no chat
\* session record and the user is null.
C39_LogoutClears ==
  [][LogoutEnd => (ls'.chat_session = NoRecord /\ auth'.user = Null)]_vars

\* C40 (edit target): when an edit starts sending, the stored index is a position
\* of the current transcript, the message there is a user message, and it is the
\* message the edit was chosen on (its database id is the stored one).
EditSendStarts == log'.sends = log.sends + 1 /\ panel'.isLoading /\ panel.isEditing
EditTargetCurrent ==
  /\ panel.editMessageIndex >= 0 /\ panel.editMessageIndex < Len(panel.messages)
  /\ panel.messages[panel.editMessageIndex + 1].role = "user"
  /\ Or(panel.messages[panel.editMessageIndex + 1].messageId, Null) = panel.editMessageId
C40_EditTarget == [][EditSendStarts => EditTargetCurrent]_vars

====
